---- MODULE Spec2Model ----
(***************************************************************************)
(* A model of the priority compositing code of LIFE_landuse (src/main.py): *)
(*   - clean_geometries            (lines 47-63)                           *)
(*   - priority_union_layers       (lines 79-153)                          *)
(*   - Step 9, the raster compositor (lines 715-812)                       *)
(*   - the run of the script, steps 2 to 9 (lines 308-812)                 *)
(* Each part is a state machine of its own over the variables below; a     *)
(* specification runs one part and leaves the variables of the others at   *)
(* their idle values.                                                      *)
(***************************************************************************)
EXTENDS Integers, Sequences, FiniteSets, TLC

VARIABLES
    \* ---- Step 9 (raster compositor) ----
    pc9,                \* "loop" | "check" | "done" | "crashed"
    layer_i,            \* position of the for loop in priority_layers
    combined_array,     \* <<>> (None) or the composite, a row-major sequence of cells
    raster_meta,        \* <<>> (None) or <<meta>>, the metadata copied from the seed
    rasters_processed,  \* the flag of line 736
    combined_raster,    \* <<>> or <<[meta, data]>>: what was written to combined_raster_path
    log9,               \* the messages logged at ERROR level, in order
    grids,              \* history: what the loop found for each layer, in priority order
    \* ---- clean_geometries ----
    pcC,                \* "idle" | "input" | "once" | "twice"
    gdf_in,             \* the layer handed to clean_geometries
    gdf_once,           \* clean_geometries(gdf_in)
    gdf_twice,          \* clean_geometries(clean_geometries(gdf_in))
    \* ---- priority_union_layers ----
    pcU,                \* "sort" | "stamp" | "seed" | "layer" | "row" | "append" |
                        \* "final" | "returned" | "raised"
    union_layers_with_names, \* the argument: a sequence of [name, rows, prio, obj]; prio is
                        \* the layer's _layer_priority column, None while it has none,
                        \* obj the identity of its GeoDataFrame object
    sorted_layers,      \* the positions of the argument's layers, in sorted order
    result,             \* the accumulated GeoDataFrame
    spatial_index,      \* the rows result held when result.sindex was taken
    updated_geometries, \* the rows of the current layer accepted so far
    layer_k,            \* position of the for loop in sorted_layers
    row_j,              \* position of iterrows in the current layer
    returned,           \* None, or <<the GeoDataFrame returned>>
    \* ---- the run of the script (steps 2-9) ----
    pcP,                \* "idle" | "theme" | "rasterize" | "combine" | "done" | "aborted"
    theme_i,            \* the theme step the script is at: 1 is step 2, ..., 6 is step 7
    theme_state,        \* per theme: "exists" (its filtered file was on disk before the
                        \* run), "ok" (no file, well-formed input), "bad" (no file,
                        \* input lacking a required column), "written" (the run wrote
                        \* its filtered file)
    processed_files,    \* the list of line 309: the themes whose filtered file is listed
    raster_j,           \* position of the step-8 loop in processed_files
    raster_files,       \* per theme, its raster on disk: "none", "old" (there before
                        \* the run), "new" (written by the run from the filtered file)
    logP,               \* the error log: the steps that reported a failure, in order
    \* ---- priority_union_layers called twice ----
    first_call          \* None, or <<[layers, pc, returned]>>: the argument and the
                        \* outcome of an earlier call

vars9 == <<pc9, layer_i, combined_array, raster_meta, rasters_processed,
           combined_raster, log9, grids>>
varsC == <<pcC, gdf_in, gdf_once, gdf_twice>>
varsU == <<pcU, union_layers_with_names, sorted_layers, result, spatial_index,
           updated_geometries, layer_k, row_j, returned>>
varsP == <<pcP, theme_i, theme_state, processed_files, raster_j, raster_files, logP>>
varsX == <<first_call>>
vars  == <<vars9, varsC, varsU, varsP, varsX>>

None == <<>>

Min(S) == CHOOSE x \in S : \A y \in S : x <= y
Max(S) == CHOOSE x \in S : \A y \in S : x >= y

(***************************************************************************)
(*                     Step 9: Combine Rasters Based on Priority           *)
(***************************************************************************)

\* The priority order, highest first (lines 716-723).
priority_layers ==
    << "Crops2024_filtered", "forest2022_filtered", "Misko_sklypai_filtered",
       "abandoned_2024_filtered", "gdr2024_filtered", "imperv2024_filtered" >>

\* The model walks the first MaxGrids layers of priority_layers.
MaxGrids == 3
\* Cell values range over 0..MaxValue.
MaxValue == 2

LoopLayers == SubSeq(priority_layers, 1, Min({MaxGrids, Len(priority_layers)}))

\* A metadata value of None: equal to no cell value.
NoneNodata == -1

\* width, height, transform and crs of a raster file.  The first is the
\* geometry step 8 gives every raster it writes; the others differ from it in
\* the width, in the shape (as many cells, the other way round), in the
\* transform and in the CRS.
BaseGeom == [width |-> 2, height |-> 1, transform |-> "T0", crs |-> "EPSG:3346"]
GridGeoms ==
    { BaseGeom,
      [BaseGeom EXCEPT !.width = 1],
      [BaseGeom EXCEPT !.width = 1, !.height = 2],
      [BaseGeom EXCEPT !.transform = "T1"],
      [BaseGeom EXCEPT !.crs = "EPSG:4326"] }

\* The no-data value a raster file declares: 0, a value that is also a class
\* code, or none.
NodataValues == {0, MaxValue, NoneNodata}

\* The values a band holds in its file: the class codes, and one that does
\* not fit eight bits.
FileValues == (0..MaxValue) \cup {256}

\* src.read(1).astype('uint8') (line 752).
AsUint8(v) == v % 256
ReadBand(band) == [c \in DOMAIN band |-> AsUint8(band[c])]

BandsOf(g) == [1..(g.width * g.height) -> FileValues]

\* src.meta of a file of geometry g declaring no-data nd (line 757);
\* MetaOfBase is the metadata step 8 wrote, whatever the file.
MetaOfBase(g, nd) ==
    [width |-> BaseGeom.width, height |-> BaseGeom.height,
     transform |-> BaseGeom.transform, crs |-> BaseGeom.crs, nodata |-> nd]

MetaOf(g, nd) ==
    [width |-> g.width, height |-> g.height, transform |-> g.transform,
     crs |-> g.crs, nodata |-> nd]

\* The metadata check of lines 763-766.
GeometryMismatchNoTransform(src, meta) ==
    \/ src.width # meta.width
    \/ src.height # meta.height
    \/ src.crs # meta.crs

GeometryMismatch(src, meta) ==
    \/ src.width # meta.width
    \/ src.height # meta.height
    \/ src.transform # meta.transform
    \/ src.crs # meta.crs

\* Lines 772-777: mask, fill_mask and the masked assignment.
\* (GapFillZeroMask takes the cells that hold 0 for the gaps.)
GapFillZeroMask(combined, current, nodata) ==
    [c \in DOMAIN combined |->
        IF /\ combined[c] = 0
           /\ current[c] # nodata /\ current[c] # 0
        THEN current[c]
        ELSE combined[c]]

GapFillNoMask(combined, current, nodata) ==
    [c \in DOMAIN combined |->
        IF current[c] # nodata /\ current[c] # 0 THEN current[c] ELSE combined[c]]

GapFill(combined, current, nodata) ==
    [c \in DOMAIN combined |->
        IF /\ combined[c] = nodata
           /\ current[c] # nodata /\ current[c] # 0
        THEN current[c]
        ELSE combined[c]]

\* Line 736.
FlagInitiallySet == TRUE
InitialRastersProcessed == FALSE

Idle9 ==
    /\ pc9 = "idle" /\ layer_i = 0 /\ combined_array = None /\ raster_meta = None
    /\ rasters_processed = FALSE /\ combined_raster = None
    /\ log9 = <<>> /\ grids = <<>>

\* Lines 732-736.
Init9 ==
    /\ pc9 = "loop"
    /\ layer_i = 1
    /\ combined_array = None
    /\ raster_meta = None
    /\ rasters_processed = InitialRastersProcessed
    /\ combined_raster = None
    /\ log9 = <<>>
    /\ grids = <<>>

InLoop == pc9 = "loop" /\ layer_i <= Len(LoopLayers)

NextLayer ==
    /\ layer_i' = layer_i + 1
    /\ pc9' = IF layer_i + 1 > Len(LoopLayers) THEN "check" ELSE "loop"

Found(kind, g, arr) == [kind |-> kind, geom |-> g, array |-> arr]
NoGeom == [width |-> 0, height |-> 0, transform |-> "", crs |-> ""]

\* Lines 743-745: the raster file does not exist.
RasterMissing ==
    /\ InLoop
    /\ log9' = Append(log9, [msg |-> "Raster file not found", layer |-> layer_i])
    /\ grids' = Append(grids, Found("missing", NoGeom, <<>>))
    /\ NextLayer
    /\ UNCHANGED <<combined_array, raster_meta, rasters_processed, combined_raster>>

\* Lines 747-752 and 785-787: rasterio.open or src.read raises.
\* (RasterFailedReset also discards the composite.)
RasterFailedReset ==
    /\ InLoop
    /\ log9' = Append(log9, [msg |-> "Failed to process raster", layer |-> layer_i])
    /\ grids' = Append(grids, Found("failed", NoGeom, <<>>))
    /\ NextLayer
    /\ combined_array' = None
    /\ raster_meta' = None
    /\ UNCHANGED <<rasters_processed, combined_raster>>

RasterFailed ==
    /\ InLoop
    /\ log9' = Append(log9, [msg |-> "Failed to process raster", layer |-> layer_i])
    /\ grids' = Append(grids, Found("failed", NoGeom, <<>>))
    /\ NextLayer
    /\ UNCHANGED <<combined_array, raster_meta, rasters_processed, combined_raster>>

\* Lines 754-760: the first raster that could be read initialises the composite.
RasterSeed ==
    /\ InLoop
    /\ combined_array = None
    /\ \E g \in GridGeoms, nd \in NodataValues :
         \E band \in BandsOf(g) :
            LET current_array == ReadBand(band) IN
            /\ combined_array' = current_array
            /\ raster_meta' = <<MetaOf(g, nd)>>
            /\ rasters_processed' = TRUE
            /\ grids' = Append(grids, Found("seed", g, current_array))
    /\ NextLayer
    /\ UNCHANGED <<combined_raster, log9>>

\* Lines 762-783 (and 785-787 for an array the masks do not fit): a later
\* raster is checked against the composite's metadata and gap-filled into it.
RasterCombine ==
    /\ InLoop
    /\ combined_array # None
    /\ \E g \in GridGeoms :
         \E band \in BandsOf(g) :
            LET current_array == ReadBand(band)
                meta == raster_meta[1]
            IN
            IF GeometryMismatch(g, meta)
            THEN /\ log9' = Append(log9, [msg |-> "does not match the combined raster's metadata",
                                          layer |-> layer_i])
                 /\ grids' = Append(grids, Found("mismatch", g, <<>>))
                 /\ UNCHANGED combined_array
            ELSE IF Len(current_array) # Len(combined_array)
            THEN /\ log9' = Append(log9, [msg |-> "Failed to process raster", layer |-> layer_i])
                 /\ grids' = Append(grids, Found("failed", g, <<>>))
                 /\ UNCHANGED combined_array
            ELSE /\ combined_array' = GapFill(combined_array, current_array, meta.nodata)
                 /\ grids' = Append(grids, Found("merged", g, current_array))
                 /\ UNCHANGED log9
    /\ NextLayer
    /\ UNCHANGED <<raster_meta, rasters_processed, combined_raster>>

\* Lines 790-791.
NoValidRasters ==
    /\ pc9 = "check"
    /\ ~rasters_processed
    /\ log9' = Append(log9, [msg |-> "No valid rasters were processed", layer |-> 0])
    /\ pc9' = "done"
    /\ UNCHANGED <<layer_i, combined_array, raster_meta, rasters_processed,
                   combined_raster, grids>>

\* Lines 792-807: the metadata is updated and the composite written; a write
\* that raises is logged.  raster_meta.update on None raises outside any try.
WriteCombined ==
    /\ pc9 = "check"
    /\ rasters_processed
    /\ IF raster_meta = None
       THEN /\ pc9' = "crashed"
            /\ UNCHANGED <<raster_meta, combined_raster, log9>>
       ELSE /\ raster_meta' = <<[raster_meta[1] EXCEPT !.nodata = 0]>>
            /\ pc9' = "done"
            /\ \E written \in BOOLEAN :
                 IF written
                 THEN /\ combined_raster' = <<[meta |-> raster_meta'[1],
                                               data |-> combined_array]>>
                      /\ UNCHANGED log9
                 ELSE /\ log9' = Append(log9, [msg |-> "Failed to write the combined raster",
                                               layer |-> 0])
                      /\ UNCHANGED combined_raster
    /\ UNCHANGED <<layer_i, combined_array, rasters_processed, grids>>

(***************************************************************************)
(*                              Geometries                                 *)
(* A geometry is known by the sample cells 1, 2, 3.. of a line that it     *)
(* covers and by the form of its ring:                                     *)
(*   cells  the cells the geometry covers;                                 *)
(*   dents  the cells that lie in a concavity of its boundary shallower    *)
(*          than the simplification tolerance (not covered, but inside its *)
(*          bounding box);                                                 *)
(*   ring   "norm"  a valid ring without redundant vertices,               *)
(*          "dense" a valid ring with vertices closer to the line of their *)
(*                  neighbours than the tolerance,                         *)
(*          "twist" a self-intersecting (invalid) ring.                    *)
(* Two geometries are the same geometry (the same WKB) when the three      *)
(* fields agree.                                                           *)
(***************************************************************************)
Poly(cs)        == [cells |-> cs, dents |-> {}, ring |-> "norm"]
Dense(cs)       == [cells |-> cs, dents |-> {}, ring |-> "dense"]
Dented(cs, ds)  == [cells |-> cs, dents |-> ds, ring |-> "norm"]
Twist(cs)       == [cells |-> cs, dents |-> {}, ring |-> "twist"]
EmptyGeom       == Poly({})

\* GeoSeries.is_empty (line 61).
IsEmpty(g) == g.cells = {}
\* GeoSeries.is_valid.
IsValid(g) == g.ring # "twist"

\* GeoSeries.buffer(0) (line 55): a valid geometry keeps its footprint and its
\* vertices; a self-intersecting ring is rebuilt as a valid one and loses the
\* lobe wound the other way (its last cell), a single lobe collapsing to the
\* empty geometry.
Buffer0Skip(g) == g

Buffer0(g) ==
    IF g.ring = "twist"
    THEN Poly(g.cells \ {Max(g.cells)})
    ELSE g

\* GeoSeries.simplify(tolerance=1.0, preserve_topology=True) (line 58): the
\* vertices within the tolerance of the line of their neighbours are removed,
\* which drops the redundant vertices and fills the shallow concavities; the
\* topology of the geometry itself is kept, so it never becomes empty.
Simplify(g) ==
    IF IsEmpty(g)
    THEN g
    ELSE [cells |-> g.cells \cup g.dents,
          dents |-> {},
          ring  |-> IF g.ring = "dense" THEN "norm" ELSE g.ring]

\* geometry.bounds: the bounding box, which spans the concavities too.
Bounds(g) ==
    LET span == g.cells \cup g.dents IN
    [lo |-> Min(span), hi |-> Max(span)]

\* The query of the spatial index: boxes that meet, a shared edge included
\* (BoundsIntersectStrict leaves the shared edge out).
BoundsIntersectStrict(a, b) == a.lo < b.hi /\ b.lo < a.hi

BoundsIntersect(a, b) == a.lo <= b.hi /\ b.lo <= a.hi

\* GeoSeries.intersects: the exact test (IntersectsByBounds answers from the
\* bounding boxes alone).
IntersectsByBounds(g, h) == BoundsIntersect(Bounds(g), Bounds(h))

Intersects(g, h) == g.cells \cap h.cells # {}

(***************************************************************************)
(*                     clean_geometries (lines 47-63)                      *)
(* A GeoDataFrame is the sequence of its rows; a row has a geometry and    *)
(* its attributes.                                                         *)
(***************************************************************************)

\* gdf.drop_duplicates(subset=['geometry']) (line 52): the first row of each
\* geometry is kept.
DropDuplicates(gdf) ==
    LET F[i \in 0..Len(gdf)] ==
          IF i = 0 THEN <<>>
          ELSE IF \E j \in 1..(i - 1) : gdf[j].geometry = gdf[i].geometry
               THEN F[i - 1]
               ELSE Append(F[i - 1], gdf[i])
    IN F[Len(gdf)]

\* gdf['geometry'] = gdf.geometry.buffer(0) (line 55).
BufferAll(gdf) ==
    [i \in 1..Len(gdf) |-> [gdf[i] EXCEPT !.geometry = Buffer0(gdf[i].geometry)]]

\* gdf['geometry'] = gdf.geometry.simplify(...) (line 58).
SimplifyAll(gdf) ==
    [i \in 1..Len(gdf) |-> [gdf[i] EXCEPT !.geometry = Simplify(gdf[i].geometry)]]

NotEmptyRow(row) == ~IsEmpty(row.geometry)

clean_geometries(gdf) ==
    LET deduplicated == DropDuplicates(gdf)
        buffered     == BufferAll(deduplicated)
        simplified   == SimplifyAll(buffered)
    IN  SelectSeq(simplified, NotEmptyRow)

\* The layers handed to the cleaner: up to MaxCleanRows rows over these
\* geometries, each row carrying its position as its attribute.
MaxCleanRows == 3
CleanGeoms ==
    { Poly({1}), Poly({2}), Dense({2}), Dented({1}, {2}),
      Twist({1, 2}), Twist({3}), EmptyGeom }

CleanInputs ==
    UNION { { [i \in 1..n |-> [geometry |-> gs[i], fid |-> i]] : gs \in [1..n -> CleanGeoms] }
            : n \in 0..MaxCleanRows }

IdleC ==
    /\ pcC = "idle" /\ gdf_in = <<>> /\ gdf_once = <<>> /\ gdf_twice = <<>>

InitC ==
    /\ pcC = "input"
    /\ gdf_in \in CleanInputs
    /\ gdf_once = <<>>
    /\ gdf_twice = <<>>

\* clean_geometries(L).
CleanOnce ==
    /\ pcC = "input"
    /\ gdf_once' = clean_geometries(gdf_in)
    /\ pcC' = "once"
    /\ UNCHANGED <<gdf_in, gdf_twice>>

\* clean_geometries(clean_geometries(L)).
CleanTwice ==
    /\ pcC = "once"
    /\ gdf_twice' = clean_geometries(gdf_once)
    /\ pcC' = "twice"
    /\ UNCHANGED <<gdf_in, gdf_once>>

(***************************************************************************)
(*                  priority_union_layers (lines 79-153)                   *)
(***************************************************************************)

\* The layer_priority argument: layer names, highest priority first.
layer_priority == << "crops", "forest", "imperv" >>

\* The names a layer of the argument may carry: those of layer_priority and
\* one that is not in it.
LayerNames == { layer_priority[i] : i \in 1..Len(layer_priority) } \cup { "unlisted" }

\* At most MaxLayers layers of at most MaxRows rows each, MaxTotalRows rows
\* in all.
MaxLayers == 3
MaxRows == 2
MaxTotalRows == 4

\* The geometries of the layers: valid and not empty.  The first has a
\* shallow concavity at cell 2; it truly intersects the third and the fourth
\* and its bounding box, not its footprint, meets the second.
UnionGeoms == { Dented({1, 3}, {2}), Poly({2}), Poly({2, 3}), Poly({1}) }

GeomSeqs == UNION { [1..m -> UnionGeoms] : m \in 0..MaxRows }

NameSeqs(n) ==
    { nm \in [1..n -> LayerNames] : \A a, b \in 1..n : a # b => nm[a] # nm[b] }

\* A layer at position p of the argument; a row carries its origin as its
\* attribute.
InputLayer(p, name, gs) ==
    [name |-> name,
     rows |-> [j \in 1..Len(gs) |-> [geometry |-> gs[j], fid |-> <<p, j>>]],
     prio |-> None,
     obj  |-> p]

RECURSIVE TotalRows(_, _)
TotalRows(gs, n) == IF n = 0 THEN 0 ELSE Len(gs[n]) + TotalRows(gs, n - 1)

\* The arguments of n layers.
UnionInputs(n) ==
    { [p \in 1..n |-> InputLayer(p, nm[p], gs[p])] :
        nm \in NameSeqs(n),
        gs \in { g \in [1..n -> GeomSeqs] : TotalRows(g, n) <= MaxTotalRows } }

\* The outcome of list.index for a value that is not in the list.
ValueError == -1

Listed(name) == \E i \in 1..Len(layer_priority) : layer_priority[i] = name

\* layer_priority.index(x[0]) (line 92); PriorityIndexOrLast gives a name
\* that is not listed the place after the last.
PriorityIndexOrLast(name) ==
    IF Listed(name)
    THEN Min({ i \in 1..Len(layer_priority) : layer_priority[i] = name }) - 1
    ELSE Len(layer_priority)

PriorityIndex(name) ==
    IF Listed(name)
    THEN Min({ i \in 1..Len(layer_priority) : layer_priority[i] = name }) - 1
    ELSE ValueError

\* sorted(..., key=...) raises when the key of a layer does (line 92).
SortRaises(ls) == \E p \in 1..Len(ls) : PriorityIndex(ls[p].name) = ValueError

\* sorted(union_layers_with_names, key=...) (line 92): stable, by the key.
\* (SortedLayersAsGiven leaves the layers in the order of the argument.)
SortedLayersAsGiven(ls) == [p \in 1..Len(ls) |-> p]

SortedLayers(ls) ==
    LET key(p) == PriorityIndex(ls[p].name)
        n == Len(ls)
    IN  CHOOSE s \in [1..n -> 1..n] :
          /\ \A a, b \in 1..n : a # b => s[a] # s[b]
          /\ \A a, b \in 1..n :
               a < b => \/ key(s[a]) < key(s[b])
                        \/ key(s[a]) = key(s[b]) /\ s[a] < s[b]

\* Lines 124 and 133: what becomes of a row with intersecting result rows.
DecisionFlipped(rank, max_priority_intersecting) ==
    IF rank > max_priority_intersecting THEN "replace"
    ELSE IF rank < max_priority_intersecting THEN "skip"
    ELSE "none"

Decision(rank, max_priority_intersecting) ==
    IF rank < max_priority_intersecting THEN "replace"
    ELSE IF rank > max_priority_intersecting THEN "skip"
    ELSE "none"

\* spatial_index.intersection(row.geometry.bounds) (line 112): the positions
\* of the indexed geometries whose bounding box meets the row's.
PossibleMatches(index, geometry) ==
    { p \in 1..Len(index) : BoundsIntersect(Bounds(index[p].geometry), Bounds(geometry)) }

\* Lines 126-129.
RemoveReplaced(res, rank, geometry) ==
    LET keep(r) == r.prio > rank \/ ~Intersects(r.geometry, geometry)
    IN  SelectSeq(res, keep)

Stamped(row, rank) == [geometry |-> row.geometry, fid |-> row.fid, prio |-> rank]
DropPriority(row) == [geometry |-> row.geometry, fid |-> row.fid]

\* Arguments in which a GeoDataFrame object may be listed under several
\* places: up to MaxAliasLayers layers over up to MaxObjects objects of at
\* most MaxRows rows each, MaxTotalRows rows in all.  The layers are named
\* in priority order, the last name again when the names run out.
MaxAliasLayers == 4
MaxObjects == 3
AliasGeoms == { Poly({1}), Poly({2}), Poly({1, 2}) }
AliasGeomSeqs == UNION { [1..m -> AliasGeoms] : m \in 0..MaxRows }

AliasName(p) == layer_priority[Min({p, Len(layer_priority)})]

\* Which object each place lists: the objects are numbered in the order of
\* their first place.
ObjectSeqs(n) ==
    { o \in [1..n -> 1..MaxObjects] :
        \A p \in 1..n : o[p] <= 1 + Max({0} \cup { o[q] : q \in 1..(p - 1) }) }

AliasedInputs(n) ==
    { [p \in 1..n |->
         [name |-> AliasName(p),
          rows |-> [j \in 1..Len(gs[o[p]]) |-> [geometry |-> gs[o[p]][j], fid |-> <<o[p], j>>]],
          prio |-> None,
          obj  |-> o[p]]] :
        o \in ObjectSeqs(n),
        gs \in { g \in [1..MaxObjects -> AliasGeomSeqs] :
                   TotalRows(g, MaxObjects) <= MaxTotalRows } }

InitUAliased ==
    /\ pcU = "sort"
    /\ \E n \in 0..MaxAliasLayers : union_layers_with_names \in AliasedInputs(n)
    /\ sorted_layers = <<>>
    /\ result = <<>>
    /\ spatial_index = <<>>
    /\ updated_geometries = <<>>
    /\ layer_k = 0
    /\ row_j = 0
    /\ returned = None

\* No earlier call.
IdleX == first_call = None

IdleU ==
    /\ pcU = "idle" /\ union_layers_with_names = <<>> /\ sorted_layers = <<>>
    /\ result = <<>> /\ spatial_index = <<>> /\ updated_geometries = <<>>
    /\ layer_k = 0 /\ row_j = 0 /\ returned = None

InitU ==
    /\ pcU = "sort"
    /\ \E n \in 0..MaxLayers : union_layers_with_names \in UnionInputs(n)
    /\ sorted_layers = <<>>
    /\ result = <<>>
    /\ spatial_index = <<>>
    /\ updated_geometries = <<>>
    /\ layer_k = 0
    /\ row_j = 0
    /\ returned = None

\* Lines 91-92.
SortLayers ==
    /\ pcU = "sort"
    /\ IF SortRaises(union_layers_with_names)
       THEN /\ pcU' = "raised"
            /\ UNCHANGED sorted_layers
       ELSE /\ sorted_layers' = SortedLayers(union_layers_with_names)
            /\ pcU' = "stamp"
    /\ UNCHANGED <<union_layers_with_names, result, spatial_index,
                   updated_geometries, layer_k, row_j, returned>>

\* Lines 95-96: the value the loop leaves in the _layer_priority column of
\* the layer at place p of the argument: its place in the sorted order, and
\* for a GeoDataFrame object listed more than once the last of its places
\* (LayerStampReversed counts the places from the end).
LayerStampReversed(ls, order, p) ==
    Len(order) - Max({ a \in 1..Len(order) : ls[order[a]].obj = ls[p].obj })

LayerStamp(ls, order, p) ==
    Max({ a \in 1..Len(order) : ls[order[a]].obj = ls[p].obj }) - 1

\* Lines 94-96: every layer gets its place in sorted_layers as a column.
StampLayers ==
    /\ pcU = "stamp"
    /\ union_layers_with_names' =
         [p \in 1..Len(union_layers_with_names) |->
            [union_layers_with_names[p] EXCEPT
               !.prio = <<LayerStamp(union_layers_with_names, sorted_layers, p)>>]]
    /\ pcU' = "seed"
    /\ UNCHANGED <<sorted_layers, result, spatial_index, updated_geometries,
                   layer_k, row_j, returned>>

\* Lines 98-99: sorted_layers[0] of an empty list raises.
SeedResult ==
    /\ pcU = "seed"
    /\ IF sorted_layers = <<>>
       THEN /\ pcU' = "raised"
            /\ UNCHANGED <<result, layer_k>>
       ELSE LET first == union_layers_with_names[sorted_layers[1]] IN
            /\ result' = [j \in 1..Len(first.rows) |-> Stamped(first.rows[j], first.prio[1])]
            /\ layer_k' = 2
            /\ pcU' = IF Len(sorted_layers) >= 2 THEN "layer" ELSE "final"
    /\ UNCHANGED <<union_layers_with_names, sorted_layers, spatial_index,
                   updated_geometries, row_j, returned>>

next_layer == union_layers_with_names[sorted_layers[layer_k]]

\* Lines 102-107: the index over the result and the empty list.
BuildIndex ==
    /\ pcU = "layer"
    /\ spatial_index' = result
    /\ updated_geometries' = <<>>
    /\ row_j' = 1
    /\ pcU' = IF Len(next_layer.rows) = 0 THEN "append" ELSE "row"
    /\ UNCHANGED <<union_layers_with_names, sorted_layers, result, layer_k, returned>>

\* Lines 110-138: one row of the layer.  result.iloc of a position past the
\* end of result raises.
ProcessRow ==
    /\ pcU = "row"
    /\ LET row  == next_layer.rows[row_j]
           rank == next_layer.prio[1]
           possible_matches_index == PossibleMatches(spatial_index, row.geometry)
       IN
       IF \E p \in possible_matches_index : p > Len(result)
       THEN /\ pcU' = "raised"
            /\ UNCHANGED <<result, updated_geometries, row_j>>
       ELSE
         LET intersecting ==
               { p \in possible_matches_index : Intersects(result[p].geometry, row.geometry) }
         IN
         /\ IF intersecting # {}
            THEN LET max_priority_intersecting == Max({ result[p].prio : p \in intersecting })
                     what == Decision(rank, max_priority_intersecting)
                 IN  IF what = "replace"
                     THEN /\ result' = RemoveReplaced(result, rank, row.geometry)
                          /\ updated_geometries' = Append(updated_geometries, Stamped(row, rank))
                     ELSE UNCHANGED <<result, updated_geometries>>
            ELSE /\ updated_geometries' = Append(updated_geometries, Stamped(row, rank))
                 /\ UNCHANGED result
         /\ IF row_j = Len(next_layer.rows)
            THEN pcU' = "append" /\ UNCHANGED row_j
            ELSE pcU' = "row" /\ row_j' = row_j + 1
    /\ UNCHANGED <<union_layers_with_names, sorted_layers, spatial_index, layer_k, returned>>

\* Lines 140-146: the accepted rows are appended, with the layer's priority.
AppendLayer ==
    /\ pcU = "append"
    /\ result' =
         IF updated_geometries # <<>>
         THEN result \o [j \in 1..Len(updated_geometries) |->
                            Stamped(updated_geometries[j], next_layer.prio[1])]
         ELSE result
    /\ layer_k' = layer_k + 1
    /\ pcU' = IF layer_k + 1 > Len(sorted_layers) THEN "final" ELSE "layer"
    /\ UNCHANGED <<union_layers_with_names, sorted_layers, spatial_index,
                   updated_geometries, row_j, returned>>

\* Lines 148-153: the result is cleaned, loses its priority column and is
\* returned.
CleanAndReturn ==
    /\ pcU = "final"
    /\ LET cleaned == clean_geometries(result) IN
       /\ result' = [j \in 1..Len(cleaned) |-> DropPriority(cleaned[j])]
       /\ returned' = <<[j \in 1..Len(cleaned) |-> DropPriority(cleaned[j])]>>
    /\ pcU' = "returned"
    /\ UNCHANGED <<union_layers_with_names, sorted_layers, spatial_index,
                   updated_geometries, layer_k, row_j>>

(***************************************************************************)
(*              The run of the script, steps 2 to 9 (lines 308-812)        *)
(* Steps 2 to 7 each filter one theme layer into a GeoPackage, step 8      *)
(* rasterizes the files listed in processed_files, step 9 composites the   *)
(* rasters (the compositor itself is the machine of Step 9 above).         *)
(***************************************************************************)
themes == <<"Crops2024", "forest2022", "Misko_sklypai",
            "abandoned_2024", "gdr2024", "imperv2024">>
StepOf(i) == i + 1
ThemeStates == {"exists", "ok", "bad"}
RasterStates == {"none", "old"}
RasterOutcomes == {"written", "empty", "failed"}

IdleP ==
    /\ pcP = "idle" /\ theme_i = 0 /\ theme_state = <<>> /\ processed_files = <<>>
    /\ raster_j = 0 /\ raster_files = <<>> /\ logP = <<>>

\* Line 309, after the boundary and the lookup table are loaded.
InitP ==
    /\ pcP = "theme"
    /\ theme_i = 1
    /\ theme_state \in [1..Len(themes) -> ThemeStates]
    /\ processed_files = <<>>
    /\ raster_j = 0
    /\ raster_files \in [1..Len(themes) -> RasterStates]
    /\ logP = <<>>

\* Where the script goes after a theme step that did not raise.
AfterTheme ==
    IF theme_i < Len(themes)
    THEN theme_i' = theme_i + 1 /\ pcP' = "theme" /\ UNCHANGED raster_j
    ELSE pcP' = "rasterize" /\ raster_j' = 1 /\ UNCHANGED theme_i

\* Lines 349-351, 395-397, 457-459, 501-503, 547-549, 591-593: the failure is
\* logged and raised again; nothing above catches it, the script ends.
ThemeFailed ==
    /\ logP' = Append(logP, StepOf(theme_i))
    /\ pcP' = "aborted"
    /\ UNCHANGED <<theme_i, theme_state, processed_files, raster_j>>

\* Steps 2 to 7 (lines 315-596), one theme each: an existing output is
\* listed as it is; otherwise the layer is read, checked, filtered, written
\* and listed.
ThemeStep ==
    /\ pcP = "theme"
    /\ CASE theme_state[theme_i] = "exists" ->
              /\ processed_files' = Append(processed_files, theme_i)
              /\ AfterTheme
              /\ UNCHANGED <<theme_state, logP>>
         [] theme_state[theme_i] = "ok" ->
              /\ theme_state' = [theme_state EXCEPT ![theme_i] = "written"]
              /\ processed_files' = Append(processed_files, theme_i)
              /\ AfterTheme
              /\ UNCHANGED logP
         [] theme_state[theme_i] = "bad" -> ThemeFailed
    /\ UNCHANGED raster_files

\* Line 656: the raster of theme t is skipped when its file exists
\* (SkipRasterUnlessRegenerated: unless the run wrote the filtered file).
SkipRasterUnlessRegenerated(t) == raster_files[t] # "none" /\ theme_state[t] # "written"

SkipRaster(t) == raster_files[t] # "none"

\* Lines 645-707: one file of processed_files.  Its raster exists already
\* and is left (lines 656-658); or the layer has no features and is left
\* without a raster (lines 670-672); or the raster is written (line 697); or
\* the attempt fails and the loop goes on (lines 705-707).
RasterizeLayer ==
    /\ pcP = "rasterize"
    /\ raster_j <= Len(processed_files)
    /\ LET t == processed_files[raster_j] IN
       IF SkipRaster(t)
       THEN UNCHANGED <<raster_files, logP>>
       ELSE \E outcome \in RasterOutcomes :
              /\ raster_files' = IF outcome = "written"
                                 THEN [raster_files EXCEPT ![t] = "new"]
                                 ELSE raster_files
              /\ logP' = IF outcome = "failed" THEN Append(logP, 8) ELSE logP
    /\ raster_j' = raster_j + 1
    /\ UNCHANGED <<pcP, theme_i, theme_state, processed_files>>

\* Line 709: the loop is over.
RasterizeDone ==
    /\ pcP = "rasterize"
    /\ raster_j > Len(processed_files)
    /\ pcP' = "combine"
    /\ UNCHANGED <<theme_i, theme_state, processed_files, raster_j, raster_files, logP>>

\* Lines 715-812: step 9 runs.
CombineRasters ==
    /\ pcP = "combine"
    /\ pcP' = "done"
    /\ UNCHANGED <<theme_i, theme_state, processed_files, raster_j, raster_files, logP>>

NextP ==
    \/ (ThemeStep /\ UNCHANGED <<vars9, varsC, varsU, varsX>>)
    \/ (RasterizeLayer /\ UNCHANGED <<vars9, varsC, varsU, varsX>>)
    \/ (RasterizeDone /\ UNCHANGED <<vars9, varsC, varsU, varsX>>)
    \/ (CombineRasters /\ UNCHANGED <<vars9, varsC, varsU, varsX>>)

InitPipeline == InitP /\ Idle9 /\ IdleC /\ IdleU /\ IdleX

SpecPipeline == InitPipeline /\ [][NextP]_vars

NextU ==
    \/ (SortLayers /\ UNCHANGED <<vars9, varsC, varsP, varsX>>)
    \/ (StampLayers /\ UNCHANGED <<vars9, varsC, varsP, varsX>>)
    \/ (SeedResult /\ UNCHANGED <<vars9, varsC, varsP, varsX>>)
    \/ (BuildIndex /\ UNCHANGED <<vars9, varsC, varsP, varsX>>)
    \/ (ProcessRow /\ UNCHANGED <<vars9, varsC, varsP, varsX>>)
    \/ (AppendLayer /\ UNCHANGED <<vars9, varsC, varsP, varsX>>)
    \/ (CleanAndReturn /\ UNCHANGED <<vars9, varsC, varsP, varsX>>)

InitUnion == InitU /\ Idle9 /\ IdleC /\ IdleP /\ IdleX

SpecUnion == InitUnion /\ [][NextU]_vars

(***************************************************************************)
(* priority_union_layers called a second time, with the same layers in     *)
(* another order (lines 79-153 twice).                                     *)
(***************************************************************************)
\* The arguments of the first call: as UnionInputs, over fewer geometries
\* and MaxPermutedRows rows in all.
MaxPermutedRows == 3
PermutedGeoms == { Dented({1, 3}, {2}), Poly({2, 3}), Poly({1}) }
PermutedGeomSeqs == UNION { [1..m -> PermutedGeoms] : m \in 0..MaxRows }

PermutedInputs(n) ==
    { [p \in 1..n |-> InputLayer(p, nm[p], gs[p])] :
        nm \in NameSeqs(n),
        gs \in { g \in [1..n -> PermutedGeomSeqs] : TotalRows(g, n) <= MaxPermutedRows } }

InitUFirst ==
    /\ pcU = "sort"
    /\ \E n \in 0..MaxLayers : union_layers_with_names \in PermutedInputs(n)
    /\ sorted_layers = <<>>
    /\ result = <<>>
    /\ spatial_index = <<>>
    /\ updated_geometries = <<>>
    /\ layer_k = 0
    /\ row_j = 0
    /\ returned = None

Orders(n) == { o \in [1..n -> 1..n] : \A a, b \in 1..n : a # b => o[a] # o[b] }

\* The first call is over; the function is called again with the same
\* layers, as they were given to the first call, in any order.
CallPermuted ==
    /\ pcU \in {"returned", "raised"}
    /\ first_call = None
    /\ first_call' = <<[layers |-> union_layers_with_names, pc |-> pcU, returned |-> returned]>>
    /\ \E o \in Orders(Len(union_layers_with_names)) :
         union_layers_with_names' =
            [p \in 1..Len(union_layers_with_names) |->
               [union_layers_with_names[o[p]] EXCEPT !.prio = None]]
    /\ pcU' = "sort"
    /\ sorted_layers' = <<>>
    /\ result' = <<>>
    /\ spatial_index' = <<>>
    /\ updated_geometries' = <<>>
    /\ layer_k' = 0
    /\ row_j' = 0
    /\ returned' = None

NextUTwice ==
    \/ NextU
    \/ (CallPermuted /\ UNCHANGED <<vars9, varsC, varsP>>)

InitUnionPermuted == InitUFirst /\ Idle9 /\ IdleC /\ IdleP /\ IdleX

SpecUnionPermuted == InitUnionPermuted /\ [][NextUTwice]_vars

InitUnionAliased == InitUAliased /\ Idle9 /\ IdleC /\ IdleP /\ IdleX

SpecUnionAliased == InitUnionAliased /\ [][NextU]_vars

NextC ==
    \/ (CleanOnce /\ UNCHANGED <<vars9, varsU, varsP, varsX>>)
    \/ (CleanTwice /\ UNCHANGED <<vars9, varsU, varsP, varsX>>)

InitClean == InitC /\ Idle9 /\ IdleU /\ IdleP /\ IdleX

SpecClean == InitClean /\ [][NextC]_vars

Next9 ==
    \/ (RasterMissing /\ UNCHANGED <<varsC, varsU, varsP, varsX>>)
    \/ (RasterFailed /\ UNCHANGED <<varsC, varsU, varsP, varsX>>)
    \/ (RasterSeed /\ UNCHANGED <<varsC, varsU, varsP, varsX>>)
    \/ (RasterCombine /\ UNCHANGED <<varsC, varsU, varsP, varsX>>)
    \/ (NoValidRasters /\ UNCHANGED <<varsC, varsU, varsP, varsX>>)
    \/ (WriteCombined /\ UNCHANGED <<varsC, varsU, varsP, varsX>>)

InitRaster == Init9 /\ IdleC /\ IdleU /\ IdleP /\ IdleX

SpecRaster == InitRaster /\ [][Next9]_vars

(***************************************************************************)
(*                 Properties of the raster compositor                     *)
(***************************************************************************)

\* The loop has gone through every layer.
LoopDone == pc9 \in {"check", "done", "crashed"}

\* The value of the highest-priority grid that is not 0 at cell c, 0 when
\* there is none.
FirstNonZero(c) ==
    LET holders == { i \in 1..Len(grids) : grids[i].array[c] # 0 }
    IN  IF holders = {} THEN 0 ELSE grids[Min(holders)].array[c]

\* C3 (gap-fill monotonicity): when every grid of the priority order was read
\* and has the composite's width, height, transform and CRS, every cell of
\* the composite holds, once the loop is over, the value of the first grid
\* that is not 0 there, and 0 when every grid is 0 there.
C3_GapFillMonotonic ==
    (/\ LoopDone
     /\ grids # <<>>
     /\ \A i \in 1..Len(grids) : grids[i].kind \in {"seed", "merged"})
    => \A c \in DOMAIN combined_array : combined_array[c] = FirstNonZero(c)

\* A value that is neither 0 nor the no-data value of the composite.
RealValue(v) == v # 0 /\ v # raster_meta[1].nodata

\* C4 (real values are kept): no step changes a cell of the composite that
\* holds a real value, whatever the grid being processed holds there.
C4_RealValueKept ==
    [][ combined_array # None =>
          /\ combined_array' # None
          /\ DOMAIN combined_array' = DOMAIN combined_array
          /\ \A c \in DOMAIN combined_array :
               RealValue(combined_array[c]) => combined_array'[c] = combined_array[c]
      ]_vars

\* A lower-priority grid was merged that holds, at a cell where the composite
\* has a real value, another value that is not 0 and not the no-data value.
C4_Witness ==
    /\ Len(grids) >= 2
    /\ grids[Len(grids)].kind = "merged"
    /\ \E c \in DOMAIN combined_array :
         /\ RealValue(combined_array[c])
         /\ RealValue(grids[Len(grids)].array[c])
         /\ grids[Len(grids)].array[c] # combined_array[c]

\* The grid has the width, height, transform and CRS the metadata records.
SameGrid(g, meta) ==
    /\ g.width = meta.width /\ g.height = meta.height
    /\ g.transform = meta.transform /\ g.crs = meta.crs

\* C5 (geometry gate): a step that processes an opened grid whose width,
\* height, transform or CRS differs from the composite's metadata leaves the
\* composite and its metadata as they are, does not merge the grid, and goes
\* on to the next layer.
C5_GeometryGate ==
    [][ (/\ combined_array # None
         /\ Len(grids') = Len(grids) + 1
         /\ grids'[Len(grids')].geom # NoGeom
         /\ ~SameGrid(grids'[Len(grids')].geom, raster_meta[1]))
        => /\ combined_array' = combined_array
           /\ raster_meta' = raster_meta
           /\ grids'[Len(grids')].kind # "merged"
           /\ layer_i' = layer_i + 1
           /\ pc9' \in {"loop", "check"}
      ]_vars

\* A grid was excluded for its geometry and a later grid was merged.
C5_Witness ==
    \E i, j \in 1..Len(grids) :
        /\ i < j
        /\ grids[i].kind = "mismatch"
        /\ grids[j].kind = "merged"
        /\ combined_array # grids[1].array

NoGridRead == \A i \in 1..Len(grids) : grids[i].kind \in {"missing", "failed"}

Logged(msg) == \E k \in 1..Len(log9) : log9[k].msg = msg

\* C9 (no grid, no output): when the run is over and no grid could be read,
\* the error is logged and no combined raster was written; a combined raster
\* is written only after a grid initialised the composite.
C9_NoGridNoOutput ==
    /\ (pc9 \in {"done", "crashed"} /\ NoGridRead)
         => (combined_raster = None /\ Logged("No valid rasters were processed"))
    /\ combined_raster # None
         => \E i \in 1..Len(grids) : grids[i].kind = "seed"

\* The run is over; the files were missing or could not be opened, some of
\* each.
C9_Witness ==
    /\ pc9 = "done"
    /\ Len(grids) = Len(LoopLayers)
    /\ NoGridRead
    /\ \E i, j \in 1..Len(grids) : grids[i].kind = "missing" /\ grids[j].kind = "failed"

\* The grids that were read and merged: the seed and those that passed the
\* geometry check.
IsComposited(e) == e.kind \in {"seed", "merged"}
CompositedGrids == SelectSeq(grids, IsComposited)

\* What gap-filling the grids gs, the first of them the seed, leaves at cell
\* c when nd is the no-data value of the seed: the seed's value unless it is
\* nd, and then the value of the first later grid that is neither nd nor 0.
GapFillOf(gs, nd, c) ==
    LET fillers == { i \in 2..Len(gs) : gs[i].array[c] # nd /\ gs[i].array[c] # 0 }
    IN  IF gs[1].array[c] # nd \/ fillers = {}
        THEN gs[1].array[c]
        ELSE gs[Min(fillers)].array[c]

\* A step that found the file of a layer missing or failed on it.
FailureStep ==
    /\ Len(grids') = Len(grids) + 1
    /\ grids'[Len(grids')].kind \in {"missing", "failed"}

\* C12 (raster partial progress): a step that finds a grid's file missing or
\* fails on it changes neither the composite nor its metadata and goes on to
\* the next layer; when the loop is over every layer was gone through, and
\* the composite is the gap-fill composite of the grids that did not fail.
C12_RasterPartialProgress ==
    /\ [][ FailureStep =>
             /\ combined_array' = combined_array
             /\ raster_meta' = raster_meta
             /\ rasters_processed' = rasters_processed
             /\ layer_i' = layer_i + 1
             /\ pc9' \in {"loop", "check"}
         ]_vars
    /\ [](pc9 = "check" =>
             /\ Len(grids) = Len(LoopLayers)
             /\ (CompositedGrids = <<>>) = (combined_array = None)
             /\ combined_array # None =>
                   \A c \in DOMAIN combined_array :
                      combined_array[c] =
                         GapFillOf(CompositedGrids, raster_meta[1].nodata, c))

\* The loop is over; the grid that follows the seed failed, and the one after
\* it filled a cell of the composite.
C12_Witness ==
    /\ pc9 = "check"
    /\ Len(grids) >= 3
    /\ grids[1].kind = "seed"
    /\ grids[2].kind \in {"missing", "failed"}
    /\ grids[3].kind = "merged"
    /\ combined_array # grids[1].array

\* The place in the priority order of the first grid that was read.
FirstRead ==
    Min({ i \in 1..Len(grids) : grids[i].kind \notin {"missing", "failed"} })

\* C13 as stated (the composite starts as G1): whenever there is a composite,
\* the first grid of the priority order initialised it, the accumulator has
\* its geometry, and right after the initialisation the composite holds its
\* cells.
C13_SeedIsFirstLayer ==
    combined_array # None =>
      /\ grids[1].kind = "seed"
      /\ SameGrid(grids[1].geom, raster_meta[1])
      /\ Len(grids) = 1 => combined_array = grids[1].array

\* C13 (the composite starts as the first grid that can be read): whenever
\* there is a composite, the first grid of the priority order whose file was
\* there and could be read initialised it, the accumulator has that grid's
\* width, height, transform and CRS, and right after the initialisation the
\* composite holds that grid's cells as they were read (as uint8).
C13_SeedIsFirstRead ==
    combined_array # None =>
      /\ grids[FirstRead].kind = "seed"
      /\ SameGrid(grids[FirstRead].geom, raster_meta[1])
      /\ Len(grids) = FirstRead => combined_array = grids[FirstRead].array

\* The composite was just initialised, by the second grid of the order, of
\* another geometry than step 8 writes and with a cell that is not 0.
C13_Witness ==
    /\ Len(grids) = 2
    /\ grids[1].kind \in {"missing", "failed"}
    /\ grids[2].kind = "seed"
    /\ grids[2].geom # BaseGeom
    /\ \E c \in DOMAIN combined_array : combined_array[c] # 0

\* The painter's algorithm over the first n grids at cell c: from an all-zero
\* grid, the grids are painted from the lowest priority to the highest, each
\* over the cells where it is not 0.
RECURSIVE PaintFrom(_, _)
PaintFrom(i, c) ==
    IF i > Len(grids) THEN 0
    ELSE IF grids[i].array[c] # 0 THEN grids[i].array[c]
    ELSE PaintFrom(i + 1, c)

\* C17 (painter equivalence): for grids that were all read and have the same
\* geometry, the composite the loop leaves is the one the painter's algorithm
\* gives.
C17_PainterEquivalent ==
    (/\ pc9 = "check"
     /\ grids # <<>>
     /\ \A i \in 1..Len(grids) : IsComposited(grids[i]))
    => combined_array = [c \in DOMAIN combined_array |-> PaintFrom(1, c)]

\* The grid the step has just taken, and the no-data value the composite's
\* metadata records.
LastGrid == grids[Len(grids)]
SeedNodata == raster_meta[1].nodata

C10_CleanIdempotent == pcC = "twice" => gdf_twice = gdf_once

\* The layer has a row of that attribute.
HasFid(gdf, fid) == \E i \in 1..Len(gdf) : gdf[i].fid = fid

Overlap(g, h) == g.cells \cap h.cells # {}

InputLayers == 1..Len(union_layers_with_names)
RowsOf(p) == 1..Len(union_layers_with_names[p].rows)
GeomOf(p, i) == union_layers_with_names[p].rows[i].geometry
OriginOf(p, i) == union_layers_with_names[p].rows[i].fid

NameListed(p) ==
    \E i \in 1..Len(layer_priority) : layer_priority[i] = union_layers_with_names[p].name

NamePlace(p) ==
    CHOOSE i \in 1..Len(layer_priority) : layer_priority[i] = union_layers_with_names[p].name

\* Layer p has a higher priority than layer q.
Higher(p, q) == NamePlace(p) < NamePlace(q)

\* The accumulated result between two layers and after the last.
BetweenLayers == pcU \in {"layer", "final"}

\* C1 (no cross-rank overlap): after the seed, after every processed layer
\* and in the result returned, no two features of different layers truly
\* intersect.
C1_NoCrossRankOverlap ==
    /\ BetweenLayers =>
         \A a, b \in 1..Len(result) :
            result[a].prio # result[b].prio
              => ~Overlap(result[a].geometry, result[b].geometry)
    /\ pcU = "returned" =>
         \A a, b \in 1..Len(returned[1]) :
            returned[1][a].fid[1] # returned[1][b].fid[1]
              => ~Overlap(returned[1][a].geometry, returned[1][b].geometry)

\* The result returned has a row of feature <<p, i>>, covering all of it.
ReturnedWhole(p, i) ==
    \E r \in 1..Len(returned[1]) :
        /\ returned[1][r].fid = OriginOf(p, i)
        /\ GeomOf(p, i).cells \subseteq returned[1][r].geometry.cells

ReturnedAny(p, i) ==
    \E r \in 1..Len(returned[1]) : returned[1][r].fid = OriginOf(p, i)

RECURSIVE Retained(_, _)
Retained(p, i) ==
    \A q \in InputLayers : \A k \in RowsOf(q) :
       (Higher(q, p) /\ Overlap(GeomOf(q, k), GeomOf(p, i))) => ~Retained(q, k)

AfterLayer == BetweenLayers /\ layer_k > 2
AfterReturn == pcU = "returned" /\ layer_k > 2
done_layer == union_layers_with_names[sorted_layers[layer_k - 1]]

\* A valid geometry without redundant vertices or shallow concavities, and
\* the first row of its layer with that geometry.
PlainAndFirst(rows, j) ==
    /\ rows[j].geometry.ring = "norm" /\ rows[j].geometry.dents = {}
    /\ \A k \in 1..(j - 1) : rows[k].geometry # rows[j].geometry

IntersectsNothing(g, rows) ==
    \A s \in 1..Len(rows) : ~Overlap(rows[s].geometry, g)

IntersectsBetter(g, rank, rows) ==
    \E s \in 1..Len(rows) : Overlap(rows[s].geometry, g) /\ rows[s].prio < rank

C14_InputsReadOnly ==
    [][union_layers_with_names' = union_layers_with_names]_vars

SomeUnlisted == \E p \in InputLayers : ~NameListed(p)

\* C8 (a name absent from the priority list aborts the call): when a layer of
\* the argument has a name that layer_priority does not list, the call goes
\* from the sort to the error; no layer is ever stamped, the result is never
\* started and nothing is returned.
C8_UnlistedAborts ==
    SomeUnlisted =>
      /\ pcU \in {"sort", "raised"}
      /\ \A p \in InputLayers : union_layers_with_names[p].prio = None
      /\ sorted_layers = <<>>
      /\ result = <<>>
      /\ returned = None

\* The call raised for an argument of several layers with features, the
\* first of them listed.
C8_Witness ==
    /\ pcU = "raised"
    /\ SomeUnlisted
    /\ Len(union_layers_with_names) >= 2
    /\ NameListed(1)
    /\ \A p \in InputLayers : RowsOf(p) # {}

(***************************************************************************)
(* Claims about the loop when a GeoDataFrame object may be listed under    *)
(* several places of the argument (SpecUnionAliased).                      *)
(***************************************************************************)
NoSharedObject ==
    \A p, q \in InputLayers :
       p # q => union_layers_with_names[p].obj # union_layers_with_names[q].obj

RowHere == next_layer.rows[row_j]

TrulyIntersecting ==
    { s \in 1..Len(result) : Overlap(result[s].geometry, RowHere.geometry) }

IsPrefix(s, t) == Len(s) <= Len(t) /\ \A i \in 1..Len(s) : t[i] = s[i]

InLayerLoop == pcU \in {"layer", "row", "append"}

\* One step of the loop over the layers, as C20 describes it.
ReplaceNeverTaken ==
    /\ InLayerLoop => IsPrefix(result, result')
    /\ pcU = "row" =>
         /\ \A s \in 1..Len(result) : result[s].prio < next_layer.prio[1]
         /\ TrulyIntersecting # {} => updated_geometries' = updated_geometries

ReplaceTaken ==
    /\ pcU = "row"
    /\ TrulyIntersecting # {}
    /\ Len(updated_geometries') > Len(updated_geometries)

\* C16 (the replace step): the step is taken only when the rank of the
\* incoming feature is lower than the rank of every feature of the result it
\* intersects; it removes from the result exactly the intersecting features
\* whose rank is no better than the incoming one, and accepts the incoming
\* feature whole.
C16_ReplaceStep ==
    [][ ReplaceTaken =>
          LET rank == next_layer.prio[1]
              stays(r) == ~(Overlap(r.geometry, RowHere.geometry) /\ r.prio >= rank)
          IN  /\ \A s \in TrulyIntersecting : rank < result[s].prio
              /\ result' = SelectSeq(result, stays)
              /\ updated_geometries' = Append(updated_geometries, Stamped(RowHere, rank)) ]_vars

\* C15 (the index is never stale): from the moment the index of a layer is
\* built until the layer's accepted features are appended, the result is the
\* one the index was built over.
C15_IndexNeverStale == pcU \in {"row", "append"} => result = spatial_index

\* C11 (partial progress of the union): when the call fails while it
\* processes layer k, the result accumulated from the layers before k is
\* delivered to the caller.
C11_PartialDelivered ==
    (pcU = "raised" /\ layer_k >= 2) =>
       /\ returned # None
       /\ \A s \in 1..Len(spatial_index) :
            \E r \in 1..Len(returned[1]) : returned[1][r].fid = spatial_index[s].fid

(***************************************************************************)
(* Claims about the run of the script (SpecPipeline).                      *)
(***************************************************************************)
Misko == CHOOSE i \in 1..Len(themes) : themes[i] = "Misko_sklypai"

\* C19 (a precondition error in one theme layer excludes only that layer):
\* when step 4 finds a required column missing in Misko_sklypai, the failure
\* is reported, the layer is left out of processed_files and the script goes
\* on to step 5; the run is never ended by it, so that steps 5 to 9 are
\* still executed.
C19_OnlyThatLayerExcluded ==
    /\ [][ (pcP = "theme" /\ theme_i = Misko /\ theme_state[Misko] = "bad") =>
              /\ logP' = Append(logP, StepOf(Misko))
              /\ processed_files' = processed_files
              /\ pcP' = "theme"
              /\ theme_i' = Misko + 1 ]_vars
    /\ [](\A n \in 1..Len(logP) : logP[n] = StepOf(Misko) => pcP # "aborted")

ThemeSet == 1..Len(themes)

\* C22 (the skip cache is keyed by file existence alone): no step writes a
\* raster that is already on disk, whether or not the run wrote the theme's
\* filtered file; a theme step that finds its filtered file lists it and
\* writes nothing, whatever the state of its raster; and a raster the run
\* wrote belongs to a listed theme.
C22_ExistenceSkipCache ==
    /\ [][ /\ \A t \in ThemeSet :
                (pcP # "idle" /\ raster_files[t] # "none") => raster_files'[t] = raster_files[t]
           /\ (pcP = "theme" /\ theme_state[theme_i] = "exists") =>
                /\ theme_state' = theme_state
                /\ processed_files' = Append(processed_files, theme_i)
                /\ raster_files' = raster_files ]_vars
    /\ [](\A t \in ThemeSet :
            (pcP # "idle" /\ raster_files[t] = "new") =>
               \E n \in 1..Len(processed_files) : processed_files[n] = t)

\* Step 9 ran on the raster of a theme that was on disk before the run,
\* although the run wrote that theme's filtered file anew; another theme's
\* raster was written by the run.
C22_Witness ==
    /\ pcP = "done"
    /\ \E t, u \in ThemeSet :
         /\ theme_state[t] = "written"
         /\ raster_files[t] = "old"
         /\ raster_files[u] = "new"

(***************************************************************************)
(* Claims about two calls of priority_union_layers (SpecUnionPermuted).    *)
(***************************************************************************)
SecondCallOver == first_call # None /\ pcU \in {"returned", "raised"}

NamesOf(ls) == [p \in 1..Len(ls) |-> ls[p].name]

\* C23 (the result does not depend on the order of the argument): for layers
\* of distinct names, the call with the layers in any other order ends as
\* the first call did, by an error or by returning the same features, with
\* the same geometries, in the same order.
C23_OrderIndependent ==
    SecondCallOver =>
       /\ pcU = first_call[1].pc
       /\ returned = first_call[1].returned

\* Three layers with listed names were given in an order other than that of
\* the first call; both calls returned features of several layers and
\* dropped at least one feature.
C23_Witness ==
    /\ SecondCallOver
    /\ pcU = "returned"
    /\ Len(union_layers_with_names) = 3
    /\ NamesOf(union_layers_with_names) # NamesOf(first_call[1].layers)
    /\ \E r, q \in 1..Len(returned[1]) : returned[1][r].fid[1] # returned[1][q].fid[1]
    /\ \E p \in InputLayers : \E j \in 1..Len(union_layers_with_names[p].rows) :
         \A r \in 1..Len(returned[1]) :
            returned[1][r].fid # union_layers_with_names[p].rows[j].fid

====
